---- MODULE Spec2Model ----
(***************************************************************************)
(* Model of telefonica.tables.Table: the cached period/date bounds of one  *)
(* table, their refresh through the query gateway, the comparison against  *)
(* a candidate date and the conditional execution of a modification        *)
(* script.  Python strings are sequences of one-character strings, so that *)
(* str() and datetime.strptime are modelled by what they do to the text.   *)
(* A second part models telefonica.process.Process.optimize_dtypes on a    *)
(* DataFrame whose 64-bit integers are kept as two limbs, so that a cast   *)
(* to a narrower width is modelled by the bits it keeps.                   *)
(***************************************************************************)
EXTENDS Integers, Sequences, FiniteSets, TLC

\* ------------------------------------------------------------------ bounds
\* months of 2024 whose first day is a period of the universe
NumPeriods == 1
\* calls made on the table in one run
MaxCalls == 3
\* rows of the DataFrame handed to optimize_dtypes
MaxRows == 3

\* ------------------------------------------------------- Python values
None == [t |-> "none", v |-> <<>>]
Str(s) == [t |-> "str", v |-> s]
\* isinstance(x, str)
IsStr(x) == x.t = "str"
\* truth value of an Optional[str]: None and "" are falsy
Truthy(x) == x.t = "str" /\ x.v # <<>>

Digits == <<"0", "1", "2", "3", "4", "5", "6", "7", "8", "9">>
IsDigit(c) == \E i \in 1..10 : Digits[i] = c
DigitVal(c) == (CHOOSE i \in 1..10 : Digits[i] = c) - 1
IsNonZeroDigit(c) == IsDigit(c) /\ c # "0"

\* ------------------------------------------------------- calendar dates
\* a datetime.date is <<year, month, day>>
IsLeap(y) == (y % 4 = 0 /\ y % 100 # 0) \/ y % 400 = 0
DaysInMonth(y, m) ==
    IF m = 2 THEN (IF IsLeap(y) THEN 29 ELSE 28)
    ELSE IF m \in {4, 6, 9, 11} THEN 30 ELSE 31
\* date.__gt__ : a > b
DateGT(a, b) ==
    \/ a[1] > b[1]
    \/ a[1] = b[1] /\ a[2] > b[2]
    \/ a[1] = b[1] /\ a[2] = b[2] /\ a[3] > b[3]

\* ------------------------------------------- datetime.strptime(s, "%Y-%m-%d")
\* %m : 1[0-2] | 0[1-9] | [1-9]
MonthTok(t) ==
    \/ Len(t) = 2 /\ t[1] = "1" /\ t[2] \in {"0", "1", "2"}
    \/ Len(t) = 2 /\ t[1] = "0" /\ IsNonZeroDigit(t[2])
    \/ Len(t) = 1 /\ IsNonZeroDigit(t[1])
\* %d : 3[0-1] | [1-2]\d | 0[1-9] | [1-9] | " "[1-9]
DayTok(t) ==
    \/ Len(t) = 2 /\ t[1] = "3" /\ t[2] \in {"0", "1"}
    \/ Len(t) = 2 /\ t[1] \in {"1", "2"} /\ IsDigit(t[2])
    \/ Len(t) = 2 /\ t[1] \in {"0", " "} /\ IsNonZeroDigit(t[2])
    \/ Len(t) = 1 /\ IsNonZeroDigit(t[1])
TokVal(t) ==
    IF Len(t) = 1 THEN DigitVal(t[1])
    ELSE (IF t[1] = " " THEN 0 ELSE 10 * DigitVal(t[1])) + DigitVal(t[2])
\* position of the dash that ends the month token
MonthEnd(s) == IF Len(s) >= 7 /\ s[7] = "-" THEN 7 ELSE 8
\* the text matches the format regex and nothing is left unconverted
FormatMatches(s) ==
    /\ Len(s) >= 8 /\ Len(s) <= 10
    /\ \A i \in 1..4 : IsDigit(s[i])
    /\ s[5] = "-"
    /\ LET k == MonthEnd(s) IN
         /\ Len(s) > k
         /\ s[k] = "-"
         /\ MonthTok(SubSeq(s, 6, k - 1))
         /\ DayTok(SubSeq(s, k + 1, Len(s)))
FieldsOf(s) ==
    LET k == MonthEnd(s) IN
    << 1000 * DigitVal(s[1]) + 100 * DigitVal(s[2]) + 10 * DigitVal(s[3]) + DigitVal(s[4]),
       TokVal(SubSeq(s, 6, k - 1)),
       TokVal(SubSeq(s, k + 1, Len(s))) >>
\* strptime returns a value (does not raise ValueError)
StrptimeOK(s) ==
    /\ FormatMatches(s)
    /\ LET f == FieldsOf(s) IN f[1] >= 1 /\ f[3] <= DaysInMonth(f[1], f[2])
\* strptime(s, "%Y-%m-%d").date()
Strptime(s) == FieldsOf(s)

\* ------------------------------------------------------------ str(value)
Pad2(n) == << Digits[(n \div 10) + 1], Digits[(n % 10) + 1] >>
Pad4(n) == << Digits[(n \div 1000) + 1], Digits[((n \div 100) % 10) + 1],
              Digits[((n \div 10) % 10) + 1], Digits[(n % 10) + 1] >>
\* date.isoformat()
IsoFormat(d) == Pad4(d[1]) \o <<"-">> \o Pad2(d[2]) \o <<"-">> \o Pad2(d[3])
Midnight == <<" ", "0", "0", ":", "0", "0", ":", "0", "0">>
\* a cell of the query result: a date, a timestamp at midnight, or a null
DateCell(d) == [k |-> "date", d |-> d]
TsCell(d) == [k |-> "ts", d |-> d]
NullCell == [k |-> "null", d |-> <<>>]
NatCell == [k |-> "nat", d |-> <<>>]
\* str(df.iloc[0, i])
PyStr(c) ==
    CASE c.k = "date" -> IsoFormat(c.d)
      [] c.k = "ts" -> IsoFormat(c.d) \o Midnight
      [] c.k = "null" -> <<"N", "o", "n", "e">>
      [] c.k = "nat" -> <<"N", "a", "T">>

\* ------------------------------------------------------------ universe
\* the periods a row of the underlying table can carry
Periods == {<<2023, 12, 1>>} \cup {<<2024, m, 1>> : m \in 1..NumPeriods}
\* column names; "mes" is a DATE column, "dia" a TIMESTAMP column
ColMes == <<"m", "e", "s">>
ColDia == <<"d", "i", "a">>
Columns == {ColMes, ColDia}
\* arguments a caller passes as column: a name, or a non-string
ColumnArgs == {Str(c) : c \in Columns} \cup {None}
\* the periods of the universe, as a caller writes them
CanonicalArgs == {Str(IsoFormat(d)) : d \in Periods}
\* arguments a caller passes as period / comparison date
PeriodArgs ==
    CanonicalArgs
    \cup {Str(<<"2", "0", "2", "4", "-", "2", "-", "1">>),
          Str(<<"2", "0", "2", "4", "-", "0", "2", "-", "3", "0">>),
          Str(<<"2", "0", "2", "4", "0", "1", "0", "1">>),
          None}
\* arguments a caller passes as script file: a path, or a non-string
FileArgs == {Str(<<"q", ".", "s", "q", "l">>), None}

\* arguments a caller passes as silent and params: the defaults, a flag with
\* a dictionary of the caller's, or a params that is no dictionary
PyTrue == [t |-> "bool", v |-> <<"1">>]
Dict(pairs) == [t |-> "dict", v |-> pairs]
CallerParams == Dict(<< <<"k", <<"v">> >> >>)
OptionArgs == {<<None, None>>, <<PyTrue, CallerParams>>, <<None, Str(<<"x">>)>>}

\* the two recognised data source names
DWH_TERADATA == <<"D", "W", "H", "_", "T", "E", "R", "A", "D", "A", "T", "A">>
BIGDATA_CDP == <<"B", "I", "G", "D", "A", "T", "A", "_", "C", "D", "P">>

\* ------------------------------------------------------------ DataFrame
\* a 64-bit integer v as two limbs: v = hi * 2^16 + lo with lo in 0..2^16-1
Limb == 65536
Half == 32768
Int64(hi, lo) == <<hi, lo>>
\* v < w on 64-bit integers
IntLT(v, w) == v[1] < w[1] \/ (v[1] = w[1] /\ v[2] < w[2])
\* Series.min() and Series.max() of a column that has rows
ColMin(vals) ==
    LET S == {vals[i] : i \in 1..Len(vals)} IN CHOOSE x \in S : \A y \in S : ~IntLT(y, x)
ColMax(vals) ==
    LET S == {vals[i] : i \in 1..Len(vals)} IN CHOOSE x \in S : \A y \in S : ~IntLT(x, y)
\* v >= -32768 and v <= 32767
GeMinInt16(v) == v[1] >= 0 \/ (v[1] = -1 /\ v[2] >= Half)
LeMaxInt16(v) == v[1] < 0 \/ (v[1] = 0 /\ v[2] < Half)
\* astype('int16') and astype('int32') of one 64-bit element: the low 16 or
\* 32 bits are kept and read as a signed number (written again as limbs)
AsInt16(v) == Int64(IF v[2] >= Half THEN -1 ELSE 0, v[2])
AsInt32(v) ==
    LET h == v[1] % Limb IN Int64(IF h >= Half THEN h - Limb ELSE h, v[2])
\* a column of a DataFrame: its dtype and its elements
Column(dtype, values) == [dtype |-> dtype, values |-> values]
Astype(col, dtype) ==
    Column(dtype,
           [i \in 1..Len(col.values) |->
              CASE dtype = "int16" -> AsInt16(col.values[i])
                [] dtype = "int32" -> AsInt32(col.values[i])
                [] OTHER -> col.values[i]])
\* Series.nunique()
Nunique(vals) == Cardinality({vals[i] : i \in 1..Len(vals)})
\* the integers and the texts a column can hold: the ends of the 16-bit and
\* of the 32-bit range, and the first value beyond each
IntValues ==
    {Int64(-32769, 65535), Int64(-32768, 0), Int64(-1, 32767), Int64(-1, 32768),
     Int64(0, 0),
     Int64(0, 32767), Int64(0, 32768), Int64(32767, 65535), Int64(32768, 0)}
TextValues == {"a", "b"}
SeqsOf(S, n) == [1..n -> S]
\* a DataFrame with an int64 column and an object column, in either order
Frame(ints, texts, intFirst) ==
    IF intFirst THEN <<Column("int64", ints), Column("object", texts)>>
    ELSE <<Column("object", texts), Column("int64", ints)>>
NoFrame == <<>>

VARIABLES
    name, schema, dsn, sql_name, motor,      \* Table fields, identity; None
                                             \* while no table is constructed
    period_column, max_period, min_period,   \* Table fields, period dimension
    date_column, max_date, min_date,         \* Table fields, date dimension
    db,             \* periods present in the underlying table (gateway side)
    emptyAsNoRows,  \* gateway: MAX/MIN over no rows gives an empty frame
                    \* (TRUE) or one row of nulls (FALSE)
    hist,           \* history: update_periods was called / has completed, and
                    \* the table's maximum when it last completed
    last,           \* the latest call: operation, arguments, outcome, the
                    \* number of gateway calls it issued and the request sent
    dataframe,      \* the DataFrame optimize_dtypes works on (its df), a
                    \* sequence of columns, mutated in place
    opt             \* the latest optimize_dtypes call: the DataFrame it was
                    \* given and its outcome

fields == <<period_column, max_period, min_period, date_column, max_date, min_date>>
periodFields == <<period_column, max_period, min_period>>
dateFields == <<date_column, max_date, min_date>>
ident == <<name, schema, dsn, sql_name, motor>>
table == <<name, schema, dsn, sql_name, motor,
           period_column, max_period, min_period, date_column, max_date, min_date,
           db, emptyAsNoRows, hist, last>>
frame == <<dataframe, opt>>
vars == <<table, frame>>

\* requests to the gateway: a query or a script, and the data source it is
\* sent to
NoQuery == [sel |-> "none", col |-> <<>>, from |-> <<>>]
\* "SELECT MAX(col), MIN(col) FROM sql_name"
MaxMinQuery(col) == [sel |-> "maxmin", col |-> col, from |-> sql_name.v]
\* "SELECT * FROM sql_name"
AllQuery == [sel |-> "all", col |-> <<>>, from |-> sql_name.v]
NoRequest == [kind |-> "none", dsn |-> None, query |-> NoQuery,
              file |-> None, silent |-> None, params |-> None]
\* Table.query_data: get_df_from_query(query, self.dsn)
query_data(query) ==
    [kind |-> "query", dsn |-> dsn, query |-> query,
     file |-> None, silent |-> None, params |-> None]
\* run_sql_file(file, self.dsn, silent=silent, params=params)
run_sql_file(file, silent, params) ==
    [kind |-> "script", dsn |-> dsn, query |-> NoQuery,
     file |-> file, silent |-> silent, params |-> params]

\* no optimize_dtypes call yet
NoOpt == [called |-> FALSE, before |-> NoFrame, out |-> "none"]
NoCall == [op |-> "init", arg |-> None, greater |-> TRUE, use_max |-> TRUE,
           out |-> "none", nq |-> 0, ns |-> 0, seq |-> 0, req |-> NoRequest]
Call(op, arg, greater, usemax, out, nq, ns) ==
    [op |-> op, arg |-> arg, greater |-> greater, use_max |-> usemax,
     out |-> out, nq |-> nq, ns |-> ns, seq |-> last.seq + 1, req |-> NoRequest]
\* the record of a call that sent req to the gateway
Sent(call, req) == [call EXCEPT !.req = req]
\* the operations that answer from the fields and change none of them
Answers == {"compare_period", "compare_date", "get_period_datetime"}
\* a table exists and the run has calls left; a run is followed up to its
\* first answer: the calls after it find the fields as the calls before it
\* left them
CanCall == motor # None /\ last.seq < MaxCalls /\ last.op \notin Answers

\* str.strip()
RECURSIVE LStrip(_)
LStrip(s) == IF s # <<>> /\ Head(s) = " " THEN LStrip(Tail(s)) ELSE s
RECURSIVE RStrip(_)
RStrip(s) == IF s # <<>> /\ s[Len(s)] = " " THEN RStrip(SubSeq(s, 1, Len(s) - 1)) ELSE s
Strip(s) == RStrip(LStrip(s))
\* Table.__init__: the error raised for these arguments, or "ok"
InitOutcome(n, sch, d) ==
    IF ~(IsStr(n) /\ IsStr(sch) /\ IsStr(d)) THEN "InvalidConfiguration"
    ELSE IF d.v \notin {DWH_TERADATA, BIGDATA_CDP} THEN "InvalidConfiguration"
    ELSE "ok"
\* Table.__init__: the identity fields of the table constructed
Constructed(n, sch, d) ==
    [name |-> Str(Strip(n.v)),
     schema |-> Str(Strip(sch.v)),
     dsn |-> d,
     sql_name |-> Str(Strip(sch.v) \o <<".">> \o Strip(n.v)),
     motor |-> IF d.v = DWH_TERADATA THEN Str(<<"t", "e", "r", "a", "d", "a", "t", "a">>)
                                     ELSE Str(<<"h", "i", "v", "e">>)]
\* the table of the runs that start after construction
DefaultTable == Constructed(Str(<<" ", "t", " ">>), Str(<<"s">>), Str(DWH_TERADATA))

\* Table.__init__ with a recognised dsn; period_column is the optional argument
Init ==
    /\ name = DefaultTable.name
    /\ schema = DefaultTable.schema
    /\ dsn = DefaultTable.dsn
    /\ sql_name = DefaultTable.sql_name
    /\ motor = DefaultTable.motor
    /\ period_column \in {None, Str(ColMes)}
    /\ max_period = None
    /\ min_period = None
    /\ date_column = None
    /\ max_date = None
    /\ min_date = None
    /\ db \in SUBSET Periods
    /\ emptyAsNoRows \in BOOLEAN
    /\ hist = [called |-> FALSE, done |-> FALSE, snap |-> <<>>]
    /\ last = NoCall
    /\ dataframe = NoFrame
    /\ opt = NoOpt

\* arguments a caller passes to the constructor
NameSchemaArgs ==
    {<<Str(<<" ", "t", " ">>), Str(<<"s">>)>>,
     <<Str(<<>>), Str(<<"s">>)>>,
     <<Str(<<"t">>), Str(<<" ", " ">>)>>,
     <<None, Str(<<"s">>)>>}
DsnArgs == {Str(DWH_TERADATA), Str(BIGDATA_CDP),
            Str(<<"U", "N", "K", "N", "O", "W", "N">>)}
CtorArgs(n, sch, d, pc) == [t |-> "args", v |-> <<n, sch, d, pc>>]

\* no table constructed yet
InitNew ==
    /\ name = None
    /\ schema = None
    /\ dsn = None
    /\ sql_name = None
    /\ motor = None
    /\ period_column = None
    /\ max_period = None
    /\ min_period = None
    /\ date_column = None
    /\ max_date = None
    /\ min_date = None
    /\ db \in SUBSET Periods
    /\ emptyAsNoRows \in BOOLEAN
    /\ hist = [called |-> FALSE, done |-> FALSE, snap |-> <<>>]
    /\ last = NoCall
    /\ dataframe = NoFrame
    /\ opt = NoOpt

\* Table.__init__ without the check of the data source name
Table_init_unchecked(n, sch, d, pc) ==
    /\ motor = None
    /\ last.seq < MaxCalls
    /\ UNCHANGED <<db, emptyAsNoRows, hist, frame>>
    /\ IF ~(IsStr(n) /\ IsStr(sch) /\ IsStr(d))
       THEN /\ UNCHANGED <<ident, fields>>
            /\ last' = Call("Table_init", CtorArgs(n, sch, d, pc), TRUE, TRUE,
                            "InvalidConfiguration", 0, 0)
       ELSE LET t == Constructed(n, sch, d) IN
            /\ name' = t.name
            /\ schema' = t.schema
            /\ dsn' = t.dsn
            /\ sql_name' = t.sql_name
            /\ motor' = t.motor
            /\ period_column' = pc
            /\ UNCHANGED <<max_period, min_period, date_column, max_date, min_date>>
            /\ last' = Call("Table_init", CtorArgs(n, sch, d, pc), TRUE, TRUE, "ok", 0, 0)

\* Table.__init__
Table_init(n, sch, d, pc) ==
    /\ motor = None
    /\ last.seq < MaxCalls
    /\ UNCHANGED <<db, emptyAsNoRows, hist, frame>>
    /\ IF InitOutcome(n, sch, d) # "ok"
       THEN /\ UNCHANGED <<ident, fields>>
            /\ last' = Call("Table_init", CtorArgs(n, sch, d, pc), TRUE, TRUE,
                            InitOutcome(n, sch, d), 0, 0)
       ELSE LET t == Constructed(n, sch, d) IN
            /\ name' = t.name
            /\ schema' = t.schema
            /\ dsn' = t.dsn
            /\ sql_name' = t.sql_name
            /\ motor' = t.motor
            /\ period_column' = pc
            /\ max_period' = None
            /\ min_period' = None
            /\ date_column' = None
            /\ max_date' = None
            /\ min_date' = None
            /\ last' = Call("Table_init", CtorArgs(n, sch, d, pc), TRUE, TRUE, "ok", 0, 0)

\* ------------------------------------------------------------ gateway
MaxOf(S) == CHOOSE x \in S : \A y \in S : ~DateGT(y, x)
MinOf(S) == CHOOSE x \in S : \A y \in S : ~DateGT(x, y)
CellOf(col, d) == IF col = ColMes THEN DateCell(d) ELSE TsCell(d)
NullOf(col) == IF col = ColMes THEN NullCell ELSE NatCell
GatewayFailure == [kind |-> "error", c0 |-> NullCell, c1 |-> NullCell]
EmptyFrame == [kind |-> "empty", c0 |-> NullCell, c1 |-> NullCell]
Row(a, b) == [kind |-> "row", c0 |-> a, c1 |-> b]
\* get_df_from_query("SELECT MAX(col), MIN(col) FROM sql_name", dsn):
\* the frames the gateway can answer with, or its failure
get_df_from_query(col) ==
    {GatewayFailure} \cup
    (IF db = {}
     THEN (IF emptyAsNoRows THEN {EmptyFrame} ELSE {Row(NullOf(col), NullOf(col))})
     ELSE {Row(CellOf(col, MaxOf(db)), CellOf(col, MinOf(db)))})
\* what the caller's insertion script does: the period becomes present
InsertScriptEffect(period) == db \cup {Strptime(period.v)}
\* what the caller's deletion script does: periods older than the floor go
DeleteScriptEffect(period) == {d \in db : ~DateGT(Strptime(period.v), d)}

\* ------------------------------------------------------------ operations
\* update_periods that keeps a cached minimum older than the one returned
update_periods_merge(col) ==
    /\ CanCall
    /\ UNCHANGED frame
    /\ UNCHANGED ident
    /\ UNCHANGED <<dateFields, db, emptyAsNoRows>>
    /\ IF ~IsStr(col)
       THEN /\ UNCHANGED periodFields
            /\ hist' = [hist EXCEPT !.called = TRUE]
            /\ last' = Call("update_periods", col, TRUE, TRUE, "TypeError", 0, 0)
       ELSE /\ period_column' = col
            /\ \E df \in get_df_from_query(col.v) :
                 CASE df.kind = "error" ->
                        /\ UNCHANGED <<max_period, min_period>>
                        /\ hist' = [hist EXCEPT !.called = TRUE]
                        /\ last' = Sent(Call("update_periods", col, TRUE, TRUE, "GatewayError", 1, 0),
                                     query_data(MaxMinQuery(col.v)))
                   [] df.kind = "empty" ->
                        /\ UNCHANGED <<max_period, min_period>>
                        /\ hist' = [hist EXCEPT !.called = TRUE]
                        /\ last' = Sent(Call("update_periods", col, TRUE, TRUE, "NoDataError", 1, 0),
                                     query_data(MaxMinQuery(col.v)))
                   [] df.kind = "row" ->
                        /\ max_period' = Str(PyStr(df.c0))
                        /\ min_period' =
                             IF /\ Truthy(min_period) /\ StrptimeOK(min_period.v)
                                /\ StrptimeOK(PyStr(df.c1))
                                /\ DateGT(Strptime(PyStr(df.c1)), Strptime(min_period.v))
                             THEN min_period
                             ELSE Str(PyStr(df.c1))
                        /\ hist' = [called |-> TRUE, done |-> TRUE,
                                     snap |-> IF db = {} THEN <<>> ELSE MaxOf(db)]
                        /\ last' = Sent(Call("update_periods", col, TRUE, TRUE, "ok", 1, 0),
                                     query_data(MaxMinQuery(col.v)))

\* update_periods with the bounds reset before the frame is inspected
update_periods_reset(col) ==
    /\ CanCall
    /\ UNCHANGED frame
    /\ UNCHANGED ident
    /\ UNCHANGED <<dateFields, db, emptyAsNoRows>>
    /\ IF ~IsStr(col)
       THEN /\ UNCHANGED periodFields
            /\ hist' = [hist EXCEPT !.called = TRUE]
            /\ last' = Call("update_periods", col, TRUE, TRUE, "TypeError", 0, 0)
       ELSE /\ period_column' = col
            /\ \E df \in get_df_from_query(col.v) :
                 CASE df.kind = "error" ->
                        /\ UNCHANGED <<max_period, min_period>>
                        /\ hist' = [hist EXCEPT !.called = TRUE]
                        /\ last' = Sent(Call("update_periods", col, TRUE, TRUE, "GatewayError", 1, 0),
                                     query_data(MaxMinQuery(col.v)))
                   [] df.kind = "empty" ->
                        /\ max_period' = None
                        /\ min_period' = None
                        /\ hist' = [hist EXCEPT !.called = TRUE]
                        /\ last' = Sent(Call("update_periods", col, TRUE, TRUE, "NoDataError", 1, 0),
                                     query_data(MaxMinQuery(col.v)))
                   [] df.kind = "row" ->
                        /\ max_period' = Str(PyStr(df.c0))
                        /\ min_period' = Str(PyStr(df.c1))
                        /\ hist' = [called |-> TRUE, done |-> TRUE,
                                     snap |-> IF db = {} THEN <<>> ELSE MaxOf(db)]
                        /\ last' = Sent(Call("update_periods", col, TRUE, TRUE, "ok", 1, 0),
                                     query_data(MaxMinQuery(col.v)))

\* Table.update_periods
update_periods(col) ==
    /\ CanCall
    /\ UNCHANGED frame
    /\ UNCHANGED ident
    /\ UNCHANGED <<dateFields, db, emptyAsNoRows>>
    /\ IF ~IsStr(col)
       THEN /\ UNCHANGED periodFields
            /\ hist' = [hist EXCEPT !.called = TRUE]
            /\ last' = Call("update_periods", col, TRUE, TRUE, "TypeError", 0, 0)
       ELSE /\ period_column' = col
            /\ \E df \in get_df_from_query(col.v) :
                 CASE df.kind = "error" ->
                        /\ UNCHANGED <<max_period, min_period>>
                        /\ hist' = [hist EXCEPT !.called = TRUE]
                        /\ last' = Sent(Call("update_periods", col, TRUE, TRUE, "GatewayError", 1, 0),
                                     query_data(MaxMinQuery(col.v)))
                   [] df.kind = "empty" ->
                        /\ UNCHANGED <<max_period, min_period>>
                        /\ hist' = [hist EXCEPT !.called = TRUE]
                        /\ last' = Sent(Call("update_periods", col, TRUE, TRUE, "NoDataError", 1, 0),
                                     query_data(MaxMinQuery(col.v)))
                   [] df.kind = "row" ->
                        /\ max_period' = Str(PyStr(df.c0))
                        /\ min_period' = Str(PyStr(df.c1))
                        /\ hist' = [called |-> TRUE, done |-> TRUE,
                                     snap |-> IF db = {} THEN <<>> ELSE MaxOf(db)]
                        /\ last' = Sent(Call("update_periods", col, TRUE, TRUE, "ok", 1, 0),
                                     query_data(MaxMinQuery(col.v)))

\* update_dates that also overwrites the period bounds
update_dates_both(col) ==
    /\ CanCall
    /\ UNCHANGED frame
    /\ UNCHANGED ident
    /\ UNCHANGED <<period_column, db, emptyAsNoRows, hist>>
    /\ IF ~IsStr(col)
       THEN /\ UNCHANGED <<dateFields, max_period, min_period>>
            /\ last' = Call("update_dates", col, TRUE, TRUE, "TypeError", 0, 0)
       ELSE /\ date_column' = col
            /\ \E df \in get_df_from_query(col.v) :
                 CASE df.kind = "error" ->
                        /\ UNCHANGED <<max_date, min_date, max_period, min_period>>
                        /\ last' = Sent(Call("update_dates", col, TRUE, TRUE, "GatewayError", 1, 0),
                                     query_data(MaxMinQuery(col.v)))
                   [] df.kind = "empty" ->
                        /\ UNCHANGED <<max_date, min_date, max_period, min_period>>
                        /\ last' = Sent(Call("update_dates", col, TRUE, TRUE, "NoDataError", 1, 0),
                                     query_data(MaxMinQuery(col.v)))
                   [] df.kind = "row" ->
                        /\ max_date' = Str(PyStr(df.c0))
                        /\ min_date' = Str(PyStr(df.c1))
                        /\ max_period' = Str(PyStr(df.c0))
                        /\ min_period' = Str(PyStr(df.c1))
                        /\ last' = Sent(Call("update_dates", col, TRUE, TRUE, "ok", 1, 0),
                                     query_data(MaxMinQuery(col.v)))

\* Table.update_dates
update_dates(col) ==
    /\ CanCall
    /\ UNCHANGED frame
    /\ UNCHANGED ident
    /\ UNCHANGED <<periodFields, db, emptyAsNoRows, hist>>
    /\ IF ~IsStr(col)
       THEN /\ UNCHANGED dateFields
            /\ last' = Call("update_dates", col, TRUE, TRUE, "TypeError", 0, 0)
       ELSE /\ date_column' = col
            /\ \E df \in get_df_from_query(col.v) :
                 CASE df.kind = "error" ->
                        /\ UNCHANGED <<max_date, min_date>>
                        /\ last' = Sent(Call("update_dates", col, TRUE, TRUE, "GatewayError", 1, 0),
                                     query_data(MaxMinQuery(col.v)))
                   [] df.kind = "empty" ->
                        /\ UNCHANGED <<max_date, min_date>>
                        /\ last' = Sent(Call("update_dates", col, TRUE, TRUE, "NoDataError", 1, 0),
                                     query_data(MaxMinQuery(col.v)))
                   [] df.kind = "row" ->
                        /\ max_date' = Str(PyStr(df.c0))
                        /\ min_date' = Str(PyStr(df.c1))
                        /\ last' = Sent(Call("update_dates", col, TRUE, TRUE, "ok", 1, 0),
                                     query_data(MaxMinQuery(col.v)))

\* compare_period that answers false when the selected bound is unset
compare_period_unset_false(comparison_period, greater, max) ==
    IF ~IsStr(comparison_period) THEN "TypeError"
    ELSE IF ~StrptimeOK(comparison_period.v) THEN "InvalidFormatError"
    ELSE LET table_period_str == IF max THEN max_period ELSE min_period IN
         IF ~Truthy(table_period_str) THEN "False"
         ELSE IF ~StrptimeOK(table_period_str.v) THEN "InternalError"
         ELSE LET cp == Strptime(comparison_period.v)
                  table_period == Strptime(table_period_str.v)
                  result == IF greater THEN DateGT(cp, table_period)
                                       ELSE DateGT(table_period, cp)
              IN IF result THEN "True" ELSE "False"

\* compare_period with a non-strict comparison
compare_period_ge(comparison_period, greater, max) ==
    IF ~IsStr(comparison_period) THEN "TypeError"
    ELSE IF ~StrptimeOK(comparison_period.v) THEN "InvalidFormatError"
    ELSE LET table_period_str == IF max THEN max_period ELSE min_period IN
         IF ~Truthy(table_period_str) THEN "BoundsNotSetError"
         ELSE IF ~StrptimeOK(table_period_str.v) THEN "InternalError"
         ELSE LET cp == Strptime(comparison_period.v)
                  table_period == Strptime(table_period_str.v)
                  result == IF greater THEN ~DateGT(table_period, cp)
                                       ELSE ~DateGT(cp, table_period)
              IN IF result THEN "True" ELSE "False"

\* Table.compare_period: "True", "False" or the error raised
compare_period(comparison_period, greater, max) ==
    IF ~IsStr(comparison_period) THEN "TypeError"
    ELSE IF ~StrptimeOK(comparison_period.v) THEN "InvalidFormatError"
    ELSE LET table_period_str == IF max THEN max_period ELSE min_period IN
         IF ~Truthy(table_period_str) THEN "BoundsNotSetError"
         ELSE IF ~StrptimeOK(table_period_str.v) THEN "InternalError"
         ELSE LET cp == Strptime(comparison_period.v)
                  table_period == Strptime(table_period_str.v)
                  result == IF greater THEN DateGT(cp, table_period)
                                       ELSE DateGT(table_period, cp)
              IN IF result THEN "True" ELSE "False"

\* Table.compare_date: "True", "False" or the error raised
compare_date(comparison_date, greater, max) ==
    IF ~IsStr(comparison_date) THEN "TypeError"
    ELSE IF ~StrptimeOK(comparison_date.v) THEN "InvalidFormatError"
    ELSE LET table_date_str == IF max THEN max_date ELSE min_date IN
         IF ~Truthy(table_date_str) THEN "BoundsNotSetError"
         ELSE IF ~StrptimeOK(table_date_str.v) THEN "InternalError"
         ELSE LET cd == Strptime(comparison_date.v)
                  table_date == Strptime(table_date_str.v)
                  result == IF greater THEN DateGT(cd, table_date)
                                       ELSE DateGT(table_date, cd)
              IN IF result THEN "True" ELSE "False"

\* a caller's compare_period(candidate, greater, max)
call_compare_period(p, greater, max) ==
    /\ CanCall
    /\ UNCHANGED frame
    /\ UNCHANGED ident
    /\ UNCHANGED <<fields, db, emptyAsNoRows, hist>>
    /\ last' = Call("compare_period", p, greater, max,
                    compare_period(p, greater, max), 0, 0)

\* a caller's compare_date(candidate, greater, max)
call_compare_date(p, greater, max) ==
    /\ CanCall
    /\ UNCHANGED frame
    /\ UNCHANGED ident
    /\ UNCHANGED <<fields, db, emptyAsNoRows, hist>>
    /\ last' = Call("compare_date", p, greater, max,
                    compare_date(p, greater, max), 0, 0)

\* run_modification_script with one retry after a gateway failure
run_modification_script_retry(file, silent, params, effect) ==
    IF ~IsStr(file)
    THEN {[out |-> "TypeError", ns |-> 0, db |-> db, req |-> NoRequest]}
    ELSE IF params # None /\ params.t # "dict"
    THEN {[out |-> "TypeError", ns |-> 0, db |-> db, req |-> NoRequest]}
    ELSE {[out |-> "ok", ns |-> 1, db |-> effect, req |-> run_sql_file(file, silent, params)],
          [out |-> "ok", ns |-> 2, db |-> effect, req |-> run_sql_file(file, silent, params)],
          [out |-> "GatewayError", ns |-> 2, db |-> db,
           req |-> run_sql_file(file, silent, params)]}

\* a datetime.date / datetime.datetime (at midnight) as a Python value
DateValue(d) == [t |-> "date", v |-> d]
DatetimeValue(d) == [t |-> "datetime", v |-> d]
\* Table.get_period_datetime; the record of the call keeps the value returned
get_period_datetime(max, date) ==
    /\ CanCall
    /\ UNCHANGED frame
    /\ UNCHANGED ident
    /\ UNCHANGED <<fields, db, emptyAsNoRows, hist>>
    /\ LET period == IF max THEN max_period ELSE min_period IN
       IF ~Truthy(period)
       THEN last' = Call("get_period_datetime", None, TRUE, max, "BoundsNotSetError", 0, 0)
       ELSE IF ~StrptimeOK(period.v)
       THEN last' = Call("get_period_datetime", None, TRUE, max, "InternalError", 0, 0)
       ELSE last' = Call("get_period_datetime",
                         IF date THEN DateValue(Strptime(period.v))
                                 ELSE DatetimeValue(Strptime(period.v)),
                         TRUE, max, "ok", 0, 0)

\* Table.run_modification_script: the outcomes of one call, each with the
\* number of script executions requested, the request sent and the table
\* contents after it
run_modification_script(file, silent, params, effect) ==
    IF ~IsStr(file)
    THEN {[out |-> "TypeError", ns |-> 0, db |-> db, req |-> NoRequest]}
    ELSE IF params # None /\ params.t # "dict"
    THEN {[out |-> "TypeError", ns |-> 0, db |-> db, req |-> NoRequest]}
    ELSE {[out |-> "ok", ns |-> 1, db |-> effect, req |-> run_sql_file(file, silent, params)],
          [out |-> "GatewayError", ns |-> 1, db |-> db,
           req |-> run_sql_file(file, silent, params)]}

\* insert_if that moves max_period forward once its script has run
insert_if_advancing(period, file, silent, params) ==
    /\ CanCall
    /\ UNCHANGED frame
    /\ UNCHANGED ident
    /\ UNCHANGED <<period_column, min_period, dateFields, emptyAsNoRows, hist>>
    /\ IF ~IsStr(period)
       THEN /\ UNCHANGED <<db, max_period>>
            /\ last' = Call("insert_if", period, TRUE, TRUE, "TypeError", 0, 0)
       ELSE IF ~StrptimeOK(period.v)
       THEN /\ UNCHANGED <<db, max_period>>
            /\ last' = Call("insert_if", period, TRUE, TRUE, "InvalidFormatError", 0, 0)
       ELSE LET required == compare_period(period, TRUE, TRUE) IN
            IF required = "True"
            THEN \E r \in run_modification_script(file, silent, params, InsertScriptEffect(period)) :
                   /\ db' = r.db
                   /\ max_period' = IF r.out = "ok" THEN period ELSE max_period
                   /\ last' = Sent(Call("insert_if", period, TRUE, TRUE,
                                        IF r.out = "ok" THEN "True" ELSE r.out, 0, r.ns),
                                   r.req)
            ELSE /\ UNCHANGED <<db, max_period>>
                 /\ last' = Call("insert_if", period, TRUE, TRUE, required, 0, 0)

\* Table.insert_if
insert_if(period, file, silent, params) ==
    /\ CanCall
    /\ UNCHANGED frame
    /\ UNCHANGED ident
    /\ UNCHANGED <<fields, emptyAsNoRows, hist>>
    /\ IF ~IsStr(period)
       THEN /\ UNCHANGED db
            /\ last' = Call("insert_if", period, TRUE, TRUE, "TypeError", 0, 0)
       ELSE IF ~StrptimeOK(period.v)
       THEN /\ UNCHANGED db
            /\ last' = Call("insert_if", period, TRUE, TRUE, "InvalidFormatError", 0, 0)
       ELSE LET required == compare_period(period, TRUE, TRUE) IN
            IF required = "True"
            THEN \E r \in run_modification_script(file, silent, params, InsertScriptEffect(period)) :
                   /\ db' = r.db
                   /\ last' = Sent(Call("insert_if", period, TRUE, TRUE,
                                        IF r.out = "ok" THEN "True" ELSE r.out, 0, r.ns),
                                   r.req)
            ELSE /\ UNCHANGED db
                 /\ last' = Call("insert_if", period, TRUE, TRUE, required, 0, 0)

\* delete_if without the period_column precondition
delete_if_unguarded(period, file, silent, params) ==
    /\ CanCall
    /\ UNCHANGED frame
    /\ UNCHANGED ident
    /\ UNCHANGED <<fields, emptyAsNoRows, hist>>
    /\ IF ~IsStr(period)
       THEN /\ UNCHANGED db
            /\ last' = Call("delete_if", period, TRUE, FALSE, "TypeError", 0, 0)
       ELSE IF ~StrptimeOK(period.v)
       THEN /\ UNCHANGED db
            /\ last' = Call("delete_if", period, TRUE, FALSE, "InvalidFormatError", 0, 0)
       ELSE LET required == compare_period(period, TRUE, FALSE) IN
            IF required = "True"
            THEN \E r \in run_modification_script(file, silent, params, DeleteScriptEffect(period)) :
                   /\ db' = r.db
                   /\ last' = Sent(Call("delete_if", period, TRUE, FALSE,
                                        IF r.out = "ok" THEN "True" ELSE r.out, 0, r.ns),
                                   r.req)
            ELSE /\ UNCHANGED db
                 /\ last' = Call("delete_if", period, TRUE, FALSE, required, 0, 0)

\* Table.delete_if
delete_if(period, file, silent, params) ==
    /\ CanCall
    /\ UNCHANGED frame
    /\ UNCHANGED ident
    /\ UNCHANGED <<fields, emptyAsNoRows, hist>>
    /\ IF ~Truthy(period_column)
       THEN /\ UNCHANGED db
            /\ last' = Call("delete_if", period, TRUE, FALSE, "PreconditionError", 0, 0)
       ELSE IF ~IsStr(period)
       THEN /\ UNCHANGED db
            /\ last' = Call("delete_if", period, TRUE, FALSE, "TypeError", 0, 0)
       ELSE IF ~StrptimeOK(period.v)
       THEN /\ UNCHANGED db
            /\ last' = Call("delete_if", period, TRUE, FALSE, "InvalidFormatError", 0, 0)
       ELSE LET required == compare_period(period, TRUE, FALSE) IN
            IF required = "True"
            THEN \E r \in run_modification_script(file, silent, params, DeleteScriptEffect(period)) :
                   /\ db' = r.db
                   /\ last' = Sent(Call("delete_if", period, TRUE, FALSE,
                                        IF r.out = "ok" THEN "True" ELSE r.out, 0, r.ns),
                                   r.req)
            ELSE /\ UNCHANGED db
                 /\ last' = Call("delete_if", period, TRUE, FALSE, required, 0, 0)

\* get_df that reads from the warehouse whatever the table's data source
get_df_warehouse ==
    /\ CanCall
    /\ UNCHANGED frame
    /\ UNCHANGED <<ident, fields, db, emptyAsNoRows, hist>>
    /\ \E out \in {"ok", "GatewayError"} :
         last' = Sent(Call("get_df", None, TRUE, TRUE, out, 1, 0),
                      [kind |-> "query", dsn |-> Str(DWH_TERADATA), query |-> AllQuery,
                       file |-> None, silent |-> None, params |-> None])

\* Table.get_df: get_df_from_query("SELECT * FROM sql_name", self.dsn)
get_df ==
    /\ CanCall
    /\ UNCHANGED frame
    /\ UNCHANGED <<ident, fields, db, emptyAsNoRows, hist>>
    /\ \E out \in {"ok", "GatewayError"} :
         last' = Sent(Call("get_df", None, TRUE, TRUE, out, 1, 0),
                      [kind |-> "query", dsn |-> dsn, query |-> AllQuery,
                       file |-> None, silent |-> None, params |-> None])

\* f"{x}"
PyFormat(x) == IF x.t = "none" THEN <<"N", "o", "n", "e">> ELSE x.v
\* the params_dict of delete_period
DeletionParams(period) ==
    Dict(<< <<"name", sql_name.v>>,
            <<"column", PyFormat(period_column)>>,
            <<"mes", <<"'">> \o PyFormat(period) \o <<"'">> >> >>)
\* what the deletion script does with these parameters: the period goes
DeletePeriodEffect(period) ==
    IF IsStr(period) /\ StrptimeOK(period.v) THEN db \ {Strptime(period.v)} ELSE db
\* Table.delete_period
delete_period(period, deletion_file_path, silent) ==
    /\ CanCall
    /\ UNCHANGED frame
    /\ UNCHANGED <<ident, fields, emptyAsNoRows, hist>>
    /\ \E r \in run_modification_script(deletion_file_path, silent,
                                         DeletionParams(period), DeletePeriodEffect(period)) :
         /\ db' = r.db
         /\ last' = Sent(Call("delete_period", period, TRUE, FALSE, r.out, 0, r.ns), r.req)

Next ==
    \/ \E col \in ColumnArgs : update_periods(col)
    \/ \E col \in ColumnArgs : update_dates(col)
    \/ \E p \in PeriodArgs, g \in BOOLEAN, m \in BOOLEAN : call_compare_period(p, g, m)
    \/ \E p \in PeriodArgs, g \in BOOLEAN, m \in BOOLEAN : call_compare_date(p, g, m)
    \/ \E m \in BOOLEAN, d \in BOOLEAN : get_period_datetime(m, d)
    \/ \E p \in PeriodArgs, f \in FileArgs : insert_if(p, f, None, None)
    \/ \E p \in PeriodArgs, f \in FileArgs : delete_if(p, f, None, None)

Spec == Init /\ [][Next]_vars

\* the runs that start with the construction of the table and then use the
\* operations that reach the gateway
NextLife ==
    \/ \E ns \in NameSchemaArgs, d \in DsnArgs : Table_init(ns[1], ns[2], d, None)
    \/ \E col \in ColumnArgs : update_periods(col)
    \/ \E col \in ColumnArgs : update_dates(col)
    \/ get_df
    \/ \E p \in CanonicalArgs \cup {None}, f \in FileArgs : insert_if(p, f, None, None)
    \/ \E p \in CanonicalArgs \cup {None}, f \in FileArgs, o \in OptionArgs :
          delete_if(p, f, o[1], o[2])
    \/ \E p \in CanonicalArgs \cup {None}, f \in FileArgs : delete_period(p, f, None)

SpecLife == InitNew /\ [][NextLife]_vars

\* ---------------------------------------------------- optimize_dtypes
\* len(df)
NumRows(cols) == IF cols = <<>> THEN 0 ELSE Len(cols[1].values)
\* the int64 branch: int16 when min() >= -32768 and max() <= 32767, int32
\* otherwise; min() and max() of a column without rows are NaN, and every
\* comparison with NaN is false
NarrowInt(col) ==
    IF /\ col.values # <<>>
       /\ GeMinInt16(ColMin(col.values))
       /\ LeMaxInt16(ColMax(col.values))
    THEN Astype(col, "int16")
    ELSE Astype(col, "int32")
\* the object branch: category when nunique() / len(df) < 0.5
Categorise(col, nrows) ==
    IF 2 * Nunique(col.values) < nrows THEN Astype(col, "category") ELSE col
\* the loop over df.columns from column i on: the DataFrame it leaves and how
\* it ends; nunique() / len(df) divides by zero on a DataFrame without rows
RECURSIVE OptimizeFrom(_, _)
OptimizeFrom(cols, i) ==
    IF i > Len(cols) THEN [df |-> cols, out |-> "ok"]
    ELSE IF cols[i].dtype = "int64"
         THEN OptimizeFrom([cols EXCEPT ![i] = NarrowInt(cols[i])], i + 1)
    ELSE IF cols[i].dtype = "object"
         THEN IF NumRows(cols) = 0
              THEN [df |-> cols, out |-> "ZeroDivisionError"]
              ELSE OptimizeFrom([cols EXCEPT ![i] = Categorise(cols[i], NumRows(cols))],
                                i + 1)
    ELSE OptimizeFrom(cols, i + 1)

\* Process.optimize_dtypes(df)
optimize_dtypes ==
    /\ UNCHANGED table
    /\ LET r == OptimizeFrom(dataframe, 1) IN
         /\ dataframe' = r.df
         /\ opt' = [called |-> TRUE, before |-> dataframe, out |-> r.out]

\* no table; a caller holds a DataFrame of up to MaxRows rows
InitTypes ==
    /\ name = None
    /\ schema = None
    /\ dsn = None
    /\ sql_name = None
    /\ motor = None
    /\ period_column = None
    /\ max_period = None
    /\ min_period = None
    /\ date_column = None
    /\ max_date = None
    /\ min_date = None
    /\ db = {}
    /\ emptyAsNoRows = FALSE
    /\ hist = [called |-> FALSE, done |-> FALSE, snap |-> <<>>]
    /\ last = NoCall
    /\ \E n \in 0..MaxRows :
         \E ints \in SeqsOf(IntValues, n), texts \in SeqsOf(TextValues, n),
            intFirst \in BOOLEAN :
            dataframe = Frame(ints, texts, intFirst)
    /\ opt = NoOpt

NextTypes == optimize_dtypes

\* the runs on a DataFrame: optimize_dtypes, called again on what it returns
SpecTypes == InitTypes /\ [][NextTypes]_vars

\* ================================================================ claims
\* a Python value that is a date string in the canonical form YYYY-MM-DD
IsCanonical(x) ==
    /\ IsStr(x)
    /\ Len(x.v) = 10
    /\ StrptimeOK(x.v)
    /\ IsoFormat(Strptime(x.v)) = x.v
\* the calendar order, as the order of the numbers YYYYMMDD
DateKey(x) == LET d == Strptime(x.v) IN 10000 * d[1] + 100 * d[2] + d[3]
\* the step is a call of one of the operations in ops
IsCallOf(ops) == last'.seq # last.seq /\ last'.op \in ops
\* the outcomes in which the decision was "required" but the script step failed
ScriptStepFailed == {"GatewayError", "TypeError"}

C1_WitnessEqual ==
    /\ last.op = "insert_if" /\ IsCanonical(last.arg) /\ IsCanonical(max_period)
    /\ last.out = "False"
    /\ DateKey(last.arg) = DateKey(max_period)

\* the stored minimum is a date strictly before p
MinBefore(p) == StrptimeOK(min_period.v) /\ DateKey(min_period) < DateKey(p)
\* C2: once update_periods has completed, for every canonical p, delete_if(p)
\* returns true exactly when the stored min_period is strictly less than p and
\* false otherwise (a failure of the script step apart).
C2_DeleteIfAfterRefresh ==
    (last.op = "delete_if" /\ hist.done /\ IsCanonical(last.arg))
    => /\ (last.out = "True" => MinBefore(last.arg))
       /\ (last.out = "False" <=> ~MinBefore(last.arg))
       /\ (MinBefore(last.arg) => last.out \in {"True"} \cup ScriptStepFailed)
\* the same statement on the states where the stored minimum is canonical
C2_HoldsOnCanonicalMin ==
    (last.op = "delete_if" /\ hist.done /\ IsCanonical(last.arg) /\ IsCanonical(min_period))
    => /\ (last.out = "True" => MinBefore(last.arg))
       /\ (last.out = "False" <=> ~MinBefore(last.arg))
       /\ (MinBefore(last.arg) => last.out \in {"True"} \cup ScriptStepFailed)

\* C3 as stated: before any call of update_periods, whether or not
\* period_column was given at construction, delete_if(p) fails with
\* PreconditionError for every p and runs no script.
C3_Original ==
    (last.op = "delete_if" /\ ~hist.called /\ IsStr(last.arg))
    => last.out = "PreconditionError" /\ last.ns = 0
\* C3 amended: before any call of update_periods, delete_if(p) fails for every
\* p and runs no script; the failure is PreconditionError exactly when
\* period_column was not given at construction, and otherwise TypeError for a
\* non-string p, InvalidFormatError for an unparsable p and BoundsNotSetError
\* for a parsable p.
C3_DeleteIfBeforeRefresh ==
    (last.op = "delete_if" /\ ~hist.called)
    => /\ last.ns = 0 /\ last.nq = 0
       /\ last.out \notin {"True", "False"}
       /\ (last.out = "PreconditionError" <=> period_column = None)
       /\ (period_column # None =>
             last.out = IF ~IsStr(last.arg) THEN "TypeError"
                        ELSE IF ~StrptimeOK(last.arg.v) THEN "InvalidFormatError"
                        ELSE "BoundsNotSetError")
\* delete_if failed before any refresh on a table constructed with a column
C3_Witness ==
    /\ last.op = "delete_if" /\ ~hist.called
    /\ period_column # None
    /\ last.out = "BoundsNotSetError"
C3_WitnessUnset ==
    /\ last.op = "delete_if" /\ ~hist.called
    /\ period_column = None
    /\ last.out = "PreconditionError"

\* the bound a comparison selected
SelectedBound == IF last.op = "compare_period"
                 THEN (IF last.use_max THEN max_period ELSE min_period)
                 ELSE (IF last.use_max THEN max_date ELSE min_date)
C4_WitnessEqual ==
    /\ last.op = "compare_period" /\ last.use_max
    /\ IsCanonical(last.arg) /\ IsCanonical(SelectedBound)
    /\ DateKey(SelectedBound) = DateKey(last.arg)
    /\ last.out = "False"

\* C5: a call of insert_if or delete_if issues no query and at most one script
\* execution: exactly one when it returns true, and no gateway call at all
\* when it returns false.
C5_AtMostOneScript ==
    (last.op \in {"insert_if", "delete_if"})
    => /\ last.nq = 0
       /\ last.ns <= 1
       /\ (last.out = "True" => last.ns = 1)
       /\ (last.out = "False" => last.ns = 0 /\ last.nq = 0)
\* delete_if ran its script once and returned true
C5_Witness ==
    /\ last.op = "delete_if" /\ last.out = "True" /\ last.ns = 1 /\ last.nq = 0

\* C6: insert_if and delete_if leave period_column, max_period, min_period,
\* date_column, max_date and min_date unchanged on every outcome.
C6_ConditionalOpsKeepFields ==
    [][IsCallOf({"insert_if", "delete_if"}) => fields' = fields]_vars
\* insert_if ran its script: the period is now in the table, past the cached
\* maximum, which still is the value of the last refresh
C6_Witness ==
    /\ last.op = "insert_if" /\ last.out = "True" /\ last.ns = 1
    /\ IsCanonical(max_period)
    /\ Strptime(last.arg.v) \in db
    /\ DateKey(last.arg) > DateKey(max_period)
    /\ hist.snap = Strptime(max_period.v)

FrameIsEmpty == db = {} /\ emptyAsNoRows
\* C8: when the refresh query returns an empty result set, update_periods
\* fails with NoDataError and max_period and min_period keep their values;
\* likewise update_dates with max_date and min_date.
C8_EmptyResultKeepsBounds ==
    [][/\ (IsCallOf({"update_periods"}) /\ IsStr(last'.arg) /\ FrameIsEmpty
             => last'.out \in {"NoDataError", "GatewayError"})
       /\ (IsCallOf({"update_periods"}) /\ last'.out = "NoDataError"
             => FrameIsEmpty /\ max_period' = max_period /\ min_period' = min_period)
       /\ (IsCallOf({"update_dates"}) /\ IsStr(last'.arg) /\ FrameIsEmpty
             => last'.out \in {"NoDataError", "GatewayError"})
       /\ (IsCallOf({"update_dates"}) /\ last'.out = "NoDataError"
             => FrameIsEmpty /\ max_date' = max_date /\ min_date' = min_date)]_vars
\* update_periods failed on an empty result while bounds were cached
C8_Witness ==
    /\ last.op = "update_periods" /\ last.out = "NoDataError"
    /\ hist.done /\ IsCanonical(max_period) /\ IsCanonical(min_period)
    /\ db = {}

\* the outcomes of a refresh that failed
RefreshFailures == {"NoDataError", "GatewayError", "TypeError", "MalformedDateError"}
\* C9: a call of update_periods or update_dates that fails changes no field of
\* the table, period_column and date_column included.
C9_FailedRefreshChangesNothing ==
    [][(IsCallOf({"update_periods", "update_dates"}) /\ last'.out \in RefreshFailures)
         => fields' = fields]_vars

\* C10: each of max_period, min_period, max_date and min_date is unset or a
\* canonical YYYY-MM-DD date.
C10_StoredBoundsCanonical ==
    \A b \in {max_period, min_period, max_date, min_date} :
        b = None \/ IsCanonical(b)

\* C11: max_period is set exactly when min_period is, and then period_column
\* is set; only update_periods changes max_period or min_period.  The same
\* holds of max_date, min_date, date_column and update_dates.
C11_BoundsSetTogetherByRefresh ==
    /\ [](/\ (max_period = None <=> min_period = None)
          /\ (max_period # None => Truthy(period_column))
          /\ (max_date = None <=> min_date = None)
          /\ (max_date # None => Truthy(date_column)))
    /\ [][/\ (<<max_period, min_period>>' # <<max_period, min_period>>
                => IsCallOf({"update_periods"}) /\ last'.out = "ok")
          /\ (<<max_date, min_date>>' # <<max_date, min_date>>
                => IsCallOf({"update_dates"}) /\ last'.out = "ok")]_vars
\* the period pair is set, the date pair is not, and a script has run since
C11_Witness ==
    /\ max_period # None /\ min_period # None /\ Truthy(period_column)
    /\ max_date = None /\ min_date = None
    /\ last.op = "insert_if" /\ last.out = "True"

\* the outcomes that are failures of a call
Failures == {"TypeError", "InvalidFormatError", "BoundsNotSetError",
             "PreconditionError", "InternalError", "GatewayError"}
\* the bound the latest call read is unset
ReadBoundUnset ==
    CASE last.op \in {"compare_period", "get_period_datetime"} ->
           (IF last.use_max THEN max_period ELSE min_period) = None
      [] last.op = "insert_if" -> max_period = None
      [] last.op = "delete_if" -> min_period = None
      [] last.op = "compare_date" ->
           (IF last.use_max THEN max_date ELSE min_date) = None
      [] OTHER -> FALSE
\* C12: an operation whose bound is unset fails and runs no script, for every
\* candidate and every value of greater and use_max: compare_period,
\* insert_if, delete_if and get_period_datetime on max_period/min_period,
\* compare_date on max_date/min_date.
C12_UnsetBoundFails ==
    ReadBoundUnset
    => /\ last.out \in Failures \ {"GatewayError"}
       /\ last.ns = 0
       /\ last.nq = 0
\* a parsable candidate met an unset minimum while the date pair was set
C12_Witness ==
    /\ last.op = "compare_period" /\ ~last.use_max /\ ~last.greater
    /\ IsCanonical(last.arg)
    /\ min_period = None /\ max_date # None
    /\ last.out = "BoundsNotSetError"
\* get_period_datetime met an unset bound
C12_WitnessGet ==
    /\ last.op = "get_period_datetime" /\ max_period = None
    /\ last.out = "BoundsNotSetError"

\* the date that the first ten characters of a stored bound spell
LeadingDate(x) == Strptime(SubSeq(x.v, 1, 10))
HasLeadingDate(x) == IsStr(x) /\ Len(x.v) >= 10 /\ StrptimeOK(SubSeq(x.v, 1, 10))
\* C14: a successful update_periods sets max_period and min_period to the
\* pair the query returned, whatever the bounds were before (no merge), and a
\* second refresh of an unchanged table leaves the state of the first.
C14_LastRefreshWins ==
    [][/\ (IsCallOf({"update_periods"}) /\ last'.out = "ok" /\ db # {}
             => /\ HasLeadingDate(max_period') /\ HasLeadingDate(min_period')
                /\ LeadingDate(max_period') = MaxOf(db)
                /\ LeadingDate(min_period') = MinOf(db)
                /\ period_column' = last'.arg)
       /\ (IsCallOf({"update_periods"}) /\ last'.out = "ok" /\ db = {}
             => ~HasLeadingDate(max_period') /\ ~HasLeadingDate(min_period'))
       /\ (IsCallOf({"update_periods"}) /\ last'.out = "ok"
             /\ last.op = "update_periods" /\ last.out = "ok" /\ last'.arg = last.arg
             => fields' = fields /\ hist' = hist)]_vars
\* the third call was a refresh that completed on a table whose oldest period
\* was deleted after the first refresh
C14_Witness ==
    /\ last.op = "update_periods" /\ last.out = "ok" /\ last.seq = 3
    /\ IsCanonical(min_period) /\ IsCanonical(max_period)
    /\ db # {}
    /\ Strptime(min_period.v) = MinOf(db)
    /\ <<2023, 12, 1>> \notin db
    /\ DateKey(min_period) > 20231201

\* C17: when the script execution fails inside insert_if or delete_if, the
\* call fails with the gateway's error, the script was attempted exactly once
\* and the cached bounds are unchanged; a call that attempted its script
\* either returns true or fails with that error.
C17_ScriptFailurePropagates ==
    /\ [](last.op \in {"insert_if", "delete_if"}
            => /\ (last.out = "GatewayError" => last.ns = 1 /\ last.nq = 0)
               /\ (last.ns >= 1 => last.out \in {"True", "GatewayError"}))
    /\ [][(IsCallOf({"insert_if", "delete_if"}) /\ last'.out = "GatewayError")
            => fields' = fields]_vars
\* delete_if decided to delete and its script failed
C17_Witness ==
    /\ last.op = "delete_if" /\ last.out = "GatewayError" /\ last.ns = 1
    /\ IsCanonical(min_period) /\ IsCanonical(last.arg)
    /\ DateKey(last.arg) > DateKey(min_period)

\* the outcome of a decision, from the candidate and the one bound it reads
DecisionOf(arg, bound, greater) ==
    IF ~IsStr(arg) THEN "TypeError"
    ELSE IF ~StrptimeOK(arg.v) THEN "InvalidFormatError"
    ELSE IF bound = None THEN "BoundsNotSetError"
    ELSE IF ~StrptimeOK(bound.v) THEN "InternalError"
    ELSE IF (IF greater THEN DateKey(arg) > DateKey(bound)
                        ELSE DateKey(bound) > DateKey(arg))
         THEN "True" ELSE "False"
\* the outcomes of a conditional operation whose decision is d
OutcomesOf(d) == IF d = "True" THEN {"True", "GatewayError", "TypeError"} ELSE {d}
\* C19: update_dates leaves period_column, max_period and min_period alone,
\* update_periods leaves date_column, max_date and min_date alone, and the
\* result of compare_period, insert_if and delete_if is a function of the
\* period bounds only, that of compare_date of the date bounds only.
C19_DimensionsIndependent ==
    /\ [][/\ (IsCallOf({"update_dates"}) => periodFields' = periodFields)
          /\ (IsCallOf({"update_periods"}) => dateFields' = dateFields)]_vars
    /\ [](/\ (last.op = "compare_period" =>
                last.out = DecisionOf(last.arg,
                                      IF last.use_max THEN max_period ELSE min_period,
                                      last.greater))
          /\ (last.op = "compare_date" =>
                last.out = DecisionOf(last.arg,
                                      IF last.use_max THEN max_date ELSE min_date,
                                      last.greater))
          /\ (last.op = "insert_if" =>
                last.out \in OutcomesOf(DecisionOf(last.arg, max_period, TRUE)))
          /\ (last.op = "delete_if" /\ Truthy(period_column) =>
                last.out \in OutcomesOf(DecisionOf(last.arg, min_period, TRUE))))
\* compare_date answered from canonical date bounds while the period bounds
\* hold other, unparsable text
C19_Witness ==
    /\ last.op = "compare_date" /\ last.out = "True"
    /\ IsCanonical(max_date)
    /\ max_period # None /\ ~IsCanonical(max_period)
    /\ period_column # date_column

\* the bound a decision selected
DecisionBound ==
    IF last.op = "compare_date"
    THEN (IF last.use_max THEN max_date ELSE min_date)
    ELSE (IF last.use_max THEN max_period ELSE min_period)
\* C20: when the candidate is not a canonical date, compare_period,
\* compare_date and insert_if fail with InvalidFormatError, even if the
\* selected bound is unset; BoundsNotSetError is raised only when the candidate
\* parses and the selected bound is absent; on either error no script runs.
C20_ErrorPrecedence ==
    (last.op \in {"compare_period", "compare_date", "insert_if"} /\ IsStr(last.arg))
    => /\ (~IsCanonical(last.arg) => last.out = "InvalidFormatError")
       /\ (last.out = "BoundsNotSetError"
             => StrptimeOK(last.arg.v) /\ DecisionBound = None)
       /\ (last.out \in {"InvalidFormatError", "BoundsNotSetError"} => last.ns = 0)
\* the same precedence, for the candidates that strptime cannot parse
C20_HoldsOnUnparsable ==
    (last.op \in {"compare_period", "compare_date", "insert_if"} /\ IsStr(last.arg))
    => /\ (~StrptimeOK(last.arg.v) => last.out = "InvalidFormatError")
       /\ (last.out = "InvalidFormatError" => ~StrptimeOK(last.arg.v))
       /\ (last.out = "BoundsNotSetError"
             => StrptimeOK(last.arg.v) /\ DecisionBound = None)
       /\ (StrptimeOK(last.arg.v) /\ DecisionBound = None
             => last.out = "BoundsNotSetError")
       /\ (last.out \in {"InvalidFormatError", "BoundsNotSetError"} => last.ns = 0)

\* the qualified name, from the table's schema and name
QualifiedName == schema.v \o <<".">> \o name.v
\* C13: when delete_if decides that deletion is required, the script
\* execution it requests carries the parameters {qualified_name,
\* period_column, period} of the table and the candidate, whatever the caller
\* passed as silent and params.
C13_DeleteIfParameterBundle ==
    (last.op = "delete_if" /\ last.ns >= 1)
    => /\ last.req.kind = "script"
       /\ last.req.params.t = "dict"
       /\ Len(last.req.params.v) = 3
       /\ last.req.params.v[1][2] = QualifiedName
       /\ last.req.params.v[2][2] = period_column.v
       /\ last.req.params.v[3][2] \in {last.arg.v, <<"'">> \o last.arg.v \o <<"'">>}
\* what delete_if does send: the caller's params, unchanged
C13_DeleteIfPassesCallerParams ==
    (last.op = "delete_if" /\ last.ns >= 1)
    => /\ last.req.kind = "script"
       /\ last.req.params.t \in {"none", "dict"}
       /\ (last.req.params.t = "dict" => last.req.params = CallerParams)
\* delete_period does build the parameters of the table
C13_DeletePeriodBuildsBundle ==
    (last.op = "delete_period" /\ last.ns >= 1 /\ IsStr(last.arg) /\ period_column # None)
    => /\ last.req.kind = "script"
       /\ last.req.params.t = "dict"
       /\ Len(last.req.params.v) = 3
       /\ last.req.params.v[1][2] = QualifiedName
       /\ last.req.params.v[2][2] = period_column.v
       /\ last.req.params.v[3][2] = <<"'">> \o last.arg.v \o <<"'">>

\* the data source name is one of the two recognised
Recognised(d) == IsStr(d) /\ d.v \in {DWH_TERADATA, BIGDATA_CDP}
\* C15: construction fails with InvalidConfiguration for every data source
\* other than the two recognised names; for each of the two it succeeds, with
\* the engine that name determines, a different one for each; construction
\* makes no gateway call.
C15_ConstructionChecksDataSource ==
    /\ (last.op = "Table_init"
          => LET n == last.arg.v[1]
                 sch == last.arg.v[2]
                 d == last.arg.v[3]
             IN /\ (~Recognised(d) => last.out = "InvalidConfiguration" /\ motor = None)
                /\ (Recognised(d) /\ IsStr(n) /\ IsStr(sch)
                      => last.out = "ok" /\ dsn = d /\ motor # None)
                /\ last.nq = 0 /\ last.ns = 0 /\ last.req.kind = "none")
    /\ (motor # None
          => \/ dsn.v = DWH_TERADATA /\ motor.v = <<"t", "e", "r", "a", "d", "a", "t", "a">>
             \/ dsn.v = BIGDATA_CDP /\ motor.v = <<"h", "i", "v", "e">>)
\* a table was constructed on the second data source, after a refused attempt
C15_Witness ==
    /\ last.op = "Table_init" /\ last.out = "ok" /\ last.seq = 2
    /\ dsn.v = BIGDATA_CDP
    /\ motor.v = <<"h", "i", "v", "e">>
C15_WitnessRefused ==
    /\ last.op = "Table_init" /\ last.out = "InvalidConfiguration"
    /\ IsStr(last.arg.v[1]) /\ ~Recognised(last.arg.v[3])
    /\ motor = None

\* a string with nothing but whitespace
IsBlank(x) == IsStr(x) /\ \A i \in 1..Len(x.v) : x.v[i] = " "
\* C16: construction fails with InvalidConfiguration when name, schema or
\* data source is empty after trimming, so that no table has an empty name or
\* schema in its qualified name.
C16_EmptyNamesRefused ==
    /\ (last.op = "Table_init"
          => ((IsBlank(last.arg.v[1]) \/ IsBlank(last.arg.v[2]) \/ IsBlank(last.arg.v[3]))
                => last.out = "InvalidConfiguration"))
    /\ (motor # None => name.v # <<>> /\ schema.v # <<>>)

\* C18: once the table is constructed no operation changes name, schema, dsn,
\* sql_name or motor; sql_name is schema "." name; every query and every
\* script execution is sent to the table's dsn, and every query names
\* sql_name.
C18_IdentityFixedAndUsed ==
    /\ [][motor # None => ident' = ident]_vars
    /\ [](motor # None => sql_name.v = QualifiedName)
    /\ [](/\ (last.nq + last.ns > 0 => last.req.kind # "none")
          /\ (last.op \in {"update_periods", "update_dates", "get_df"} /\ last.nq > 0
                => last.req.kind = "query")
          /\ (last.op \in {"insert_if", "delete_if"} /\ last.ns > 0
                => last.req.kind = "script")
          /\ (last.req.kind # "none" => last.req.dsn = dsn)
          /\ (last.req.kind = "query" => last.req.query.from = QualifiedName))
\* the whole table was read from the second data source as the third call
C18_Witness ==
    /\ last.op = "get_df" /\ last.out = "ok" /\ last.seq = 3
    /\ dsn.v = BIGDATA_CDP
    /\ last.req.dsn = dsn
    /\ last.req.query.from = <<"s", ".", "t">>

\* the bits of the signed integer dtypes
Width(dtype) ==
    CASE dtype = "int8" -> 8
      [] dtype = "int16" -> 16
      [] dtype = "int32" -> 32
      [] OTHER -> 64
\* the 64-bit integer v is a value of the signed width w
FitsWidth(v, w) ==
    CASE w = 8 -> (v[1] = 0 /\ v[2] < 128) \/ (v[1] = -1 /\ v[2] >= Limb - 128)
      [] w = 16 -> GeMinInt16(v) /\ LeMaxInt16(v)
      [] w = 32 -> v[1] >= -Half /\ v[1] < Half
      [] OTHER -> TRUE
AllFit(vals, w) == \A i \in 1..Len(vals) : FitsWidth(vals[i], w)
\* the smallest signed width that holds every element
SmallestWidth(vals) ==
    CHOOSE w \in {8, 16, 32, 64} :
        AllFit(vals, w) /\ \A u \in {8, 16, 32, 64} : AllFit(vals, u) => w <= u
\* the columns that were int64 when optimize_dtypes was called
Int64Columns ==
    {i \in 1..Len(opt.before) : opt.before[i].dtype = "int64"}
\* C21: optimize_dtypes loses no value: every element of a 64-bit integer
\* column is, after the call, equal to the element before it, and the new
\* width of the column is the smallest signed width that holds all its values.
C21_OptimizeLosesNoValue ==
    opt.called
    => \A i \in Int64Columns :
         /\ dataframe[i].values = opt.before[i].values
         /\ Width(dataframe[i].dtype) = SmallestWidth(opt.before[i].values)
\* the first half of C21 alone: no element changes
C21_ElementsKept ==
    opt.called
    => \A i \in Int64Columns : dataframe[i].values = opt.before[i].values
\* what the code does keep: a column whose elements all fit 32 bits keeps
\* them; of the widths 16 and 32, a column with rows that was reached gets
\* the smaller one that holds it; a column with an element beyond 32 bits is
\* cast to 32 bits all the same
C21_HoldsWithin32Bits ==
    opt.called
    => \A i \in Int64Columns :
         LET vals == opt.before[i].values IN
         /\ AllFit(vals, 32) => dataframe[i].values = vals
         /\ (dataframe[i].dtype # "int64" /\ vals # <<>>)
              => Width(dataframe[i].dtype) = (IF AllFit(vals, 16) THEN 16 ELSE 32)
         /\ (dataframe[i].dtype = "int64") => opt.out = "ZeroDivisionError"
\* a column holding 2^31 was cast to int32 and now holds -2^31
C21_WrappedTo32Bits ==
    /\ opt.called /\ opt.out = "ok"
    /\ \E i \in Int64Columns :
         /\ dataframe[i].dtype = "int32"
         /\ \E k \in 1..Len(dataframe[i].values) :
              /\ opt.before[i].values[k] = Int64(Half, 0)
              /\ dataframe[i].values[k] = Int64(-Half, 0)
====
